---- MODULE Spec2Model ----
(***************************************************************************)
(* NeoSearch: the database-backed bookmark service (src/backend) and the   *)
(* configuration-file search (src/server).                                 *)
(*                                                                         *)
(* Text is a sequence of one-character strings, so that prefix tests,      *)
(* substring tests, SQL LIKE and the JSON encoding of the tags column are  *)
(* computed character by character as the code computes them.              *)
(*                                                                         *)
(* A request handler is a sequence of steps; one step is one database      *)
(* transaction (every db.* call opens, commits and closes its own          *)
(* connection) together with the local computation that precedes it.       *)
(* Spec interleaves the steps of concurrent requests (several worker       *)
(* processes on one SQLite file); SpecSeq runs each handler to completion  *)
(* before the next request starts.  What the remote site answers to a GET  *)
(* is the environment's choice at the step that fetches.  SpecSearch adds  *)
(* bookmarks and configured files and searches both services.  SpecTime    *)
(* lets the clock advance between the steps of one worker, SpecNames lets   *)
(* users register a repository name twice, SpecRate is the rate limiting   *)
(* middleware in front of both services, SpecConfig the configuration file *)
(* under the settings of CONFIG_FILE_PATH.                                 *)
(***************************************************************************)
EXTENDS Integers, Sequences, FiniteSets, TLC

VARIABLES
    db,       \* the SQLite file: tables bookmarks, repositories, sqlite_sequence
    now,      \* CURRENT_TIMESTAMP, in seconds
    req,      \* per worker: the request in flight, or the last request and its response
    config,   \* config.yaml of the configuration-file search: its local_files list
    env_config,  \* the file CONFIG_FILE_PATH names, when it is set to another path
    request_history,  \* the rate limiter's dict: client ip -> times of its admitted requests
    forwarded         \* history: per client ip, the times of the requests passed to call_next

vars == <<db, now, req, config, env_config, request_history, forwarded>>

----------------------------------------------------------------------------
(* Bounds *)

MaxBookmarkId == 5      \* rows ever inserted into bookmarks
MaxRepositoryId == 3    \* rows ever inserted into repositories

----------------------------------------------------------------------------
(* Text *)

lower_char(c) ==
    CASE c = "A" -> "a" [] c = "B" -> "b" [] c = "C" -> "c" [] c = "D" -> "d"
      [] c = "E" -> "e" [] c = "F" -> "f" [] c = "G" -> "g" [] c = "H" -> "h"
      [] c = "I" -> "i" [] c = "J" -> "j" [] c = "K" -> "k" [] c = "L" -> "l"
      [] c = "M" -> "m" [] c = "N" -> "n" [] c = "O" -> "o" [] c = "P" -> "p"
      [] c = "Q" -> "q" [] c = "R" -> "r" [] c = "S" -> "s" [] c = "T" -> "t"
      [] c = "U" -> "u" [] c = "V" -> "v" [] c = "W" -> "w" [] c = "X" -> "x"
      [] c = "Y" -> "y" [] c = "Z" -> "z" [] OTHER -> c

\* str.lower()
lower(s) == [i \in 1..Len(s) |-> lower_char(s[i])]

\* str.startswith(p)
startswith(s, p) == Len(s) >= Len(p) /\ SubSeq(s, 1, Len(p)) = p

\* Python's  k in s  on two strings
contains(s, k) == \E i \in 0..(Len(s) - Len(k)) : SubSeq(s, i + 1, i + Len(k)) = k

\* SQLite's  s LIKE p : % is any run of characters, _ any one character, and
\* ASCII letters compare without case.
RECURSIVE like(_, _)
like(s, p) ==
    IF p = <<>> THEN s = <<>>
    ELSE IF Head(p) = "%"
         THEN \E i \in 0..Len(s) : like(SubSeq(s, i + 1, Len(s)), Tail(p))
         ELSE /\ s # <<>>
              /\ (Head(p) = "_" \/ lower_char(Head(p)) = lower_char(Head(s)))
              /\ like(Tail(s), Tail(p))

digit(n) ==
    CASE n = 0 -> "0" [] n = 1 -> "1" [] n = 2 -> "2" [] n = 3 -> "3" [] n = 4 -> "4"
      [] n = 5 -> "5" [] n = 6 -> "6" [] n = 7 -> "7" [] n = 8 -> "8" [] OTHER -> "9"

\* decimal text of a non-negative integer
RECURSIVE decimal(_)
decimal(n) == IF n < 10 THEN <<digit(n)>> ELSE decimal(n \div 10) \o <<digit(n % 10)>>

----------------------------------------------------------------------------
(* JSON documents as Python sees them after response.json() *)

JStr(s) == [t |-> "str", v |-> s]
JNum(n) == [t |-> "num", v |-> n]
JBool(b) == [t |-> "bool", v |-> b]
JNull == [t |-> "null"]
JArr(xs) == [t |-> "arr", v |-> xs]
JObj(f) == [t |-> "obj", v |-> f]

\* Python truthiness, as in  if url and description
truthy(x) ==
    CASE x.t = "str" -> x.v # <<>>
      [] x.t = "num" -> x.v # 0
      [] x.t = "bool" -> x.v
      [] x.t = "arr" -> x.v # <<>>
      [] x.t = "obj" -> DOMAIN x.v # {}
      [] OTHER -> FALSE

\* dict.get(key, default)
dict_get(item, key, default) == IF key \in DOMAIN item.v THEN item.v[key] ELSE default

\* json.dumps of one string (ensure_ascii): a quote and a backslash get a
\* backslash, a character outside ASCII becomes \uXXXX
RECURSIVE json_escape(_)
json_escape(s) ==
    IF s = <<>> THEN <<>>
    ELSE (CASE Head(s) = "\"" \/ Head(s) = "\\" -> <<"\\", Head(s)>>
            [] Head(s) = "é" -> <<"\\", "u", "0", "0", "e", "9">>
            [] OTHER -> <<Head(s)>>)
         \o json_escape(Tail(s))

\* the character with the code point \uXXXX names
unicode_char(hex) == IF hex = <<"0", "0", "e", "9">> THEN "é" ELSE "?"

RECURSIVE json_join(_)
json_join(xs) ==
    IF xs = <<>> THEN <<>>
    ELSE <<"\"">> \o json_escape(Head(xs).v) \o <<"\"">>
         \o (IF Len(xs) > 1 THEN <<",", " ">> ELSE <<>>) \o json_join(Tail(xs))

\* json.dumps(tags) for a list of strings: ["a", "b"]
json_dumps(tags) == <<"[">> \o json_join(tags.v) \o <<"]">>

\* json.loads of the text json_dumps writes: the list of its strings
RECURSIVE json_scan(_, _, _, _, _)
json_scan(text, i, in_string, cur, acc) ==
    IF i > Len(text) THEN acc
    ELSE IF in_string
         THEN IF text[i] = "\\" /\ i + 5 <= Len(text) /\ text[i + 1] = "u"
              THEN json_scan(text, i + 6, TRUE,
                             Append(cur, unicode_char(SubSeq(text, i + 2, i + 5))), acc)
              ELSE IF text[i] = "\\" /\ i < Len(text)
              THEN json_scan(text, i + 2, TRUE, Append(cur, text[i + 1]), acc)
              ELSE IF text[i] = "\""
                   THEN json_scan(text, i + 1, FALSE, <<>>, Append(acc, JStr(cur)))
                   ELSE json_scan(text, i + 1, TRUE, Append(cur, text[i]), acc)
         ELSE json_scan(text, i + 1, text[i] = "\"", <<>>, acc)

json_loads(text) == JArr(json_scan(text, 1, FALSE, <<>>, <<>>))

----------------------------------------------------------------------------
(* The database (src/backend/database.py).  A TEXT value is JStr(s), NULL  *)
(* is JNull: what sqlite3 hands back to Python as str and None.            *)

\* The users table; registration is not modelled, the accounts exist.
users == {[id |-> 1, username |-> JStr(<<"a", "l">>)], [id |-> 2, username |-> JStr(<<"b", "o">>)]}

UserIds == {u.id : u \in users}

\* CREATE TABLE IF NOT EXISTS: an empty database, ids never reused
EmptyDb == [bookmarks |-> {}, repositories |-> {},
            seq |-> [bookmarks |-> 0, repositories |-> 0]]

\* what sqlite3 accepts as a statement parameter: None, int, str (a list or a
\* dict raises "Error binding parameter")
sqlite_bindable(x) == x.t \in {"str", "num", "bool", "null"}

\* the value a TEXT column keeps for a bound parameter
sqlite_text(x) ==
    CASE x.t = "num" -> JStr(decimal(x.v))
      [] x.t = "bool" -> JStr(IF x.v THEN <<"1">> ELSE <<"0">>)
      [] OTHER -> x

get_user_by_id(user_id) == {u \in users : u.id = user_id}

\* INSERT INTO bookmarks: ok is FALSE when sqlite3 raises (a parameter it
\* cannot bind, NULL in a NOT NULL column) and the transaction rolls back.
create_bookmark(d, t, user_id, url, description, tags, category, source, is_public) ==
    LET ok == /\ \A x \in {url, description, category, source} : sqlite_bindable(x)
              /\ url.t # "null" /\ description.t # "null"
        id == d.seq.bookmarks + 1
        row == [id |-> id, user_id |-> user_id,
                url |-> sqlite_text(url), description |-> sqlite_text(description),
                tags |-> JStr(json_dumps(tags)), category |-> sqlite_text(category),
                source |-> sqlite_text(source),
                is_public |-> IF is_public THEN 1 ELSE 0, created_at |-> t]
    IN  IF ok
        THEN [ok |-> TRUE, lastrowid |-> id,
              db |-> [d EXCEPT !.bookmarks = @ \cup {row}, !.seq.bookmarks = id]]
        ELSE [ok |-> FALSE, lastrowid |-> 0, db |-> d]

\* ORDER BY created_at DESC; SQL leaves the order of equal timestamps open,
\* tie says which way the rowids of a tie come out.
RECURSIVE order_by_created_at_desc(_, _)
order_by_created_at_desc(rows, tie) ==
    IF rows = {} THEN <<>>
    ELSE LET newest == {r \in rows : \A o \in rows : o.created_at <= r.created_at}
             first == CHOOSE r \in newest : \A o \in newest :
                          IF tie = "rowid_asc" THEN r.id <= o.id ELSE r.id >= o.id
         IN  <<first>> \o order_by_created_at_desc(rows \ {first}, tie)

\* col LIKE ? ; NULL LIKE ? is not true
sql_like(col, pattern) == col.t = "str" /\ like(col.v, pattern)

\* f'%{keyword}%'
search_term(keyword) == <<"%">> \o keyword.v \o <<"%">>

\* url LIKE ? OR description LIKE ? OR tags LIKE ? OR category LIKE ?
keyword_where(b, keyword) ==
    \/ sql_like(b.url, search_term(keyword))
    \/ sql_like(b.description, search_term(keyword))
    \/ sql_like(b.tags, search_term(keyword))
    \/ sql_like(b.category, search_term(keyword))

\* bookmark['tags'] = json.loads(bookmark['tags']) if bookmark['tags'] else []
load_tags(b) == [b EXCEPT !.tags = IF truthy(b.tags) THEN json_loads(b.tags.v) ELSE JArr(<<>>)]

load_rows(rows) == [i \in 1..Len(rows) |-> load_tags(rows[i])]

\* the query without its user_id = ? condition
search_user_bookmarks_of_anyone(d, user_id, keyword, tie) ==
    load_rows(order_by_created_at_desc(
        {b \in d.bookmarks : truthy(keyword) => keyword_where(b, keyword)}, tie))

search_user_bookmarks(d, user_id, keyword, tie) ==
    load_rows(order_by_created_at_desc(
        {b \in d.bookmarks : /\ b.user_id = user_id
                             /\ (truthy(keyword) => keyword_where(b, keyword))}, tie))

get_bookmark_by_id(d, bookmark_id, user_id) ==
    {load_tags(b) : b \in {x \in d.bookmarks : x.id = bookmark_id /\ x.user_id = user_id}}

db_delete_bookmark(d, bookmark_id, user_id) ==
    LET hit == {b \in d.bookmarks : b.id = bookmark_id /\ b.user_id = user_id}
    IN  [deleted |-> hit # {}, db |-> [d EXCEPT !.bookmarks = @ \ hit]]

\* the parameters bound in the wrong order, (source, user_id): no row matches
delete_bookmarks_by_source_swapped(d, user_id, source) == d

\* the statement without its user_id condition
delete_bookmarks_by_source_any_user(d, user_id, source) ==
    [d EXCEPT !.bookmarks = {b \in @ : b.source # source}]

\* DELETE FROM bookmarks WHERE user_id = ? AND source = ?
delete_bookmarks_by_source(d, user_id, source) ==
    [d EXCEPT !.bookmarks = {b \in @ : ~(b.user_id = user_id /\ b.source = source)}]

create_repository(d, t, user_id, name, url, is_public) ==
    LET id == d.seq.repositories + 1
        row == [id |-> id, user_id |-> user_id, name |-> name, url |-> url,
                is_public |-> IF is_public THEN 1 ELSE 0,
                last_synced |-> JNull, created_at |-> t]
    IN  [lastrowid |-> id,
         db |-> [d EXCEPT !.repositories = @ \cup {row}, !.seq.repositories = id]]

\* the SELECT without its user_id = ? condition
get_repository_by_id_of_anyone(d, repository_id, user_id) ==
    {r \in d.repositories : r.id = repository_id}

get_repository_by_id(d, repository_id, user_id) ==
    {r \in d.repositories : r.id = repository_id /\ r.user_id = user_id}

\* the UPDATE without its WHERE id = ?
update_repository_sync_time_everywhere(d, t, repository_id) ==
    [d EXCEPT !.repositories = {[r EXCEPT !.last_synced = JNum(t)] : r \in @}]

update_repository_sync_time(d, t, repository_id) ==
    [d EXCEPT !.repositories =
        {IF r.id = repository_id THEN [r EXCEPT !.last_synced = JNum(t)] ELSE r : r \in @}]

\* DELETE FROM repositories WHERE id = ? AND user_id = ? ; rowcount > 0
delete_repository_row(d, repository_id, user_id) ==
    LET hit == {r \in d.repositories : r.id = repository_id /\ r.user_id = user_id}
    IN  [deleted |-> hit # {}, db |-> [d EXCEPT !.repositories = @ \ hit]]

\* SELECT b.*, u.username FROM bookmarks b JOIN users u ON b.user_id = u.id
join_username(b) ==
    [id |-> b.id, user_id |-> b.user_id, url |-> b.url, description |-> b.description,
     tags |-> b.tags, category |-> b.category, source |-> b.source,
     is_public |-> b.is_public, created_at |-> b.created_at,
     username |-> (CHOOSE u \in users : u.id = b.user_id).username]

\* the query without  b.is_public = 1
search_public_bookmarks_all(d, keyword, tie) ==
    load_rows(order_by_created_at_desc(
        {join_username(b) : b \in
            {x \in d.bookmarks : /\ get_user_by_id(x.user_id) # {}
                                 /\ (truthy(keyword) => keyword_where(x, keyword))}}, tie))

search_public_bookmarks(d, keyword, tie) ==
    load_rows(order_by_created_at_desc(
        {join_username(b) : b \in
            {x \in d.bookmarks : /\ get_user_by_id(x.user_id) # {}
                                 /\ x.is_public = 1
                                 /\ (truthy(keyword) => keyword_where(x, keyword))}}, tie))

----------------------------------------------------------------------------
(* Authentication (src/backend/auth.py).  A bearer token is valid when its *)
(* signature and expiry verify; sub is the user id it names.               *)

NoCredentials == [t |-> "none"]
Bearer(valid, sub) == [t |-> "bearer", valid |-> valid, sub |-> sub]

\* the user row, or nothing where the code raises 401
get_current_user(credentials) ==
    IF credentials.t = "none" \/ ~credentials.valid THEN {}
    ELSE get_user_by_id(credentials.sub)

\* the sub of the token looked up without verifying the token
get_current_user_optional_unverified(credentials) ==
    IF credentials.t = "none" THEN {}
    ELSE get_user_by_id(credentials.sub)

\* the user row, or nothing where the code returns None
get_current_user_optional(credentials) ==
    IF credentials.t = "none" THEN {}
    ELSE IF ~credentials.valid THEN {}
    ELSE get_user_by_id(credentials.sub)

----------------------------------------------------------------------------
(* Requests.  pc = "start" before the handler's first step, "done" once it *)
(* has answered; l holds the handler's local variables, fetched what its   *)
(* GET of the feed answered, status and body the HTTP response.            *)

\* no GET made (yet)
NoFetch == [ok |-> FALSE, err |-> "none"]

\* before and again are history, not variables of the code: the repository's
\* bookmarks when a resync began, and whether the request repeats the one the
\* worker answered last (same arguments, same answer to its GET)
NewRequest(op, credentials, a) ==
    [op |-> op, credentials |-> credentials, a |-> a, pc |-> "start", user_id |-> 0,
     l |-> <<>>, fetched |-> NoFetch, status |-> 0, body |-> <<>>,
     before |-> {}, again |-> FALSE]

NoRequest == [NewRequest("none", NoCredentials, <<>>) EXCEPT !.pc = "done"]

respond(d, r, status, body) ==
    [db |-> d, r |-> [r EXCEPT !.pc = "done", !.status = status, !.body = body,
                               !.before = {}]]

goto(d, r, pc, l) == [db |-> d, r |-> [r EXCEPT !.pc = pc, !.l = l]]

the(S) == CHOOSE x \in S : TRUE

HTTP == <<"h", "t", "t", "p", ":", "/", "/">>
HTTPS == <<"h", "t", "t", "p", "s", ":", "/", "/">>

\* url.startswith("http://") or url.startswith("https://")
valid_url(url) == startswith(url, HTTP) \/ startswith(url, HTTPS)

\* BookmarkResponse(**row): the declared fields of the model
BookmarkResponse(b) ==
    [id |-> b.id, user_id |-> b.user_id, url |-> b.url, description |-> b.description,
     tags |-> b.tags, category |-> b.category, source |-> b.source,
     created_at |-> b.created_at]

\* POST /bookmarks/add
add_bookmark(d, t, r) ==
    IF r.pc = "start"
    THEN LET cu == get_current_user(r.credentials)
         IN  IF cu = {} THEN respond(d, r, 401, <<>>)
             ELSE IF ~valid_url(r.a.url.v) THEN respond(d, r, 400, <<>>)
             ELSE LET c == create_bookmark(d, t, the(cu).id, r.a.url, r.a.description,
                                           r.a.tags, r.a.category, JNull, TRUE)
                  IN  goto(c.db, [r EXCEPT !.user_id = the(cu).id], "get",
                           [bookmark_id |-> c.lastrowid])
    ELSE LET created == get_bookmark_by_id(d, r.l.bookmark_id, r.user_id)
         IN  IF created = {} THEN respond(d, r, 500, <<>>)
             ELSE respond(d, r, 200, BookmarkResponse(the(created)))

\* one element of the /search response
\* the row passed through with its id next to the six fields
search_result_with_id(b) ==
    [id |-> b.id, url |-> b.url, description |-> b.description, tags |-> b.tags,
     category |-> b.category, source |-> b.source,
     username |-> IF "username" \in DOMAIN b THEN b.username ELSE JNull]

search_result(b) ==
    [url |-> b.url, description |-> b.description, tags |-> b.tags,
     category |-> b.category, source |-> b.source,
     username |-> IF "username" \in DOMAIN b THEN b.username ELSE JNull]

\* GET /search.  The handler declares keyword only: a field parameter in the
\* query string (r.a.field) is not read.
search_bookmarks(d, r) ==
    LET cu == get_current_user_optional(r.credentials)
        bookmarks == IF cu # {}
                     THEN search_user_bookmarks(d, the(cu).id, r.a.keyword, r.a.tie)
                     ELSE search_public_bookmarks(d, r.a.keyword, r.a.tie)
    IN  respond(d, r, 200, [i \in 1..Len(bookmarks) |-> search_result(bookmarks[i])])

\* DELETE /bookmarks/{bookmark_id}
delete_bookmark(d, r) ==
    LET cu == get_current_user(r.credentials)
    IN  IF cu = {} THEN respond(d, r, 401, <<>>)
        ELSE LET x == db_delete_bookmark(d, r.a.bookmark_id, the(cu).id)
             IN  respond(x.db, r, IF x.deleted THEN 200 ELSE 404, <<>>)

----------------------------------------------------------------------------
(* Feeds.  requests.get(url, timeout=10), raise_for_status(), json():      *)
(* err "request" is a RequestException (transport, timeout, non-2xx),      *)
(* err "json" the ValueError of a body that is not JSON.                   *)

FetchFailed(err) == [ok |-> FALSE, err |-> err]
Fetched(json) == [ok |-> TRUE, json |-> json]

\* the test written  isinstance(bookmarks_data, (list, dict))
feed_shape_ok_dict_too(data) == data.t \in {"arr", "obj"}

\* isinstance(bookmarks_data, list)
feed_shape_ok(data) == data.t = "arr"

key_text(k) ==
    CASE k = "url" -> <<"u", "r", "l">>
      [] k = "error" -> <<"e", "r", "r", "o", "r">>
      [] k = "description" -> <<"d", "e", "s", "c", "r", "i", "p", "t", "i", "o", "n">>
      [] k = "tags" -> <<"t", "a", "g", "s">>
      [] k = "category" -> <<"c", "a", "t", "e", "g", "o", "r", "y">>
      [] k = "repository" -> <<"r", "e", "p", "o", "s", "i", "t", "o", "r", "y">>
      [] k = "stars" -> <<"s", "t", "a", "r", "s">>
      [] OTHER -> <<k>>

RECURSIVE dict_keys(_)
dict_keys(ks) ==
    IF ks = {} THEN <<>>
    ELSE LET k == CHOOSE x \in ks : TRUE IN <<JStr(key_text(k))>> \o dict_keys(ks \ {k})

\* for item in bookmarks_data: a list gives its elements, a dict its keys, a
\* string its characters; anything else raises TypeError
py_iterable(data) == data.t \in {"arr", "obj", "str"}

py_iter(data) ==
    CASE data.t = "arr" -> data.v
      [] data.t = "obj" -> dict_keys(DOMAIN data.v)
      [] OTHER -> [i \in 1..Len(data.v) |-> JStr(<<data.v[i]>>)]

IMPORTED == <<"I", "M", "P", "O", "R", "T", "E", "D">>

entry_url(item) == dict_get(item, "url", JStr(<<>>))
entry_description(item) == dict_get(item, "description", JStr(<<>>))
entry_category(item) == dict_get(item, "category", JStr(IMPORTED))

\* tags if isinstance(tags, list) else []
entry_tags(item) ==
    LET tags == dict_get(item, "tags", JArr(<<>>))
    IN  IF tags.t = "arr" THEN tags ELSE JArr(<<>>)

\* the test written  if url or description
entry_wanted_either(item) ==
    item.t = "obj" /\ (truthy(entry_url(item)) \/ truthy(entry_description(item)))

\* if url and description  (item.get raises on an item that is not a dict)
entry_wanted(item) ==
    item.t = "obj" /\ truthy(entry_url(item)) /\ truthy(entry_description(item))

\* the body of the import loop for one item: the insert, or nothing when the
\* item is passed over or the insert raises
import_entry(d, t, user_id, name, item) ==
    IF entry_wanted(item)
    THEN create_bookmark(d, t, user_id, entry_url(item), entry_description(item),
                         entry_tags(item), entry_category(item), JStr(name), TRUE)
    ELSE [ok |-> FALSE, lastrowid |-> 0, db |-> d]

RepositoryImportResult(repository_id, imported_count) ==
    [repository_id |-> repository_id, bookmarks_imported |-> imported_count]

\* One step of the import loop: the items up to and including the next one
\* that inserts a row; after the last item, update_repository_sync_time and
\* the response.
import_step(d, t, r) ==
    LET items == r.l.items
        hits == {j \in r.l.i..Len(items) :
                    import_entry(d, t, r.user_id, r.l.name, items[j]).ok}
    IN  IF hits # {}
        THEN LET j == CHOOSE x \in hits : \A y \in hits : x <= y
                 c == import_entry(d, t, r.user_id, r.l.name, items[j])
             IN  goto(c.db, r, "import",
                      [r.l EXCEPT !.i = j + 1, !.imported_count = @ + 1])
        ELSE respond(update_repository_sync_time(d, t, r.l.repository_id), r, 200,
                     RepositoryImportResult(r.l.repository_id, r.l.imported_count))

\* POST /repositories/add
add_repository(d, t, got, r) ==
    IF r.pc = "start"
    THEN LET cu == get_current_user(r.credentials)
             r1 == [r EXCEPT !.fetched = got]
         IN  IF cu = {} THEN respond(d, r, 401, <<>>)
             ELSE IF ~valid_url(r.a.url) THEN respond(d, r, 400, <<>>)
             ELSE IF ~got.ok THEN respond(d, r1, 400, <<>>)
             ELSE IF ~feed_shape_ok(got.json) THEN respond(d, r1, 400, <<>>)
             ELSE LET c == create_repository(d, t, the(cu).id, r.a.name, r.a.url, TRUE)
                  IN  IF ~py_iterable(got.json) THEN respond(c.db, r1, 500, <<>>)
                      ELSE goto(c.db, [r1 EXCEPT !.user_id = the(cu).id], "import",
                                [repository_id |-> c.lastrowid, name |-> r.a.name,
                                 items |-> py_iter(got.json), i |-> 1,
                                 imported_count |-> 0])
    ELSE import_step(d, t, r)

\* POST /repositories/{repository_id}/sync
sync_repository(d, t, got, r) ==
    IF r.pc = "start"
    THEN LET cu == get_current_user(r.credentials)
         IN  IF cu = {} THEN respond(d, r, 401, <<>>)
             ELSE LET repository == get_repository_by_id(d, r.a.repository_id, the(cu).id)
                  IN  IF repository = {} THEN respond(d, r, 404, <<>>)
                      ELSE goto(d, [r EXCEPT !.user_id = the(cu).id,
                                             !.before = {b \in d.bookmarks :
                                                 /\ b.user_id = the(cu).id
                                                 /\ b.source = JStr(the(repository).name)}],
                                "delete", [repository |-> the(repository)])
    ELSE IF r.pc = "delete"
    THEN LET repository == r.l.repository
             d1 == delete_bookmarks_by_source(d, r.user_id, JStr(repository.name))
             r1 == [r EXCEPT !.fetched = got]
         IN  IF ~got.ok THEN respond(d1, r1, 400, <<>>)
             ELSE IF ~py_iterable(got.json) THEN respond(d1, r1, 500, <<>>)
             ELSE goto(d1, r1, "import",
                       [repository_id |-> r.a.repository_id, name |-> repository.name,
                        items |-> py_iter(got.json), i |-> 1, imported_count |-> 0])
    ELSE import_step(d, t, r)

\* DELETE /repositories/{repository_id}, with db.delete_repository: the
\* SELECT of the name, delete_bookmarks_by_source on a connection of its
\* own, then the DELETE of the repository row.
delete_repository(d, r) ==
    IF r.pc = "start"
    THEN LET cu == get_current_user(r.credentials)
         IN  IF cu = {} THEN respond(d, r, 401, <<>>)
             ELSE LET row == get_repository_by_id(d, r.a.repository_id, the(cu).id)
                  IN  IF row = {} THEN respond(d, r, 404, <<>>)
                      ELSE goto(d, [r EXCEPT !.user_id = the(cu).id], "delete_bookmarks",
                                [repo_name |-> the(row).name])
    ELSE IF r.pc = "delete_bookmarks"
    THEN goto(delete_bookmarks_by_source(d, r.user_id, JStr(r.l.repo_name)), r,
              "delete_row", r.l)
    ELSE LET x == delete_repository_row(d, r.a.repository_id, r.user_id)
         IN  respond(x.db, r, IF x.deleted THEN 200 ELSE 404, <<>>)

\* whether the next step of r is the one that does the GET
fetches(r) ==
    \/ r.op = "add_repository" /\ r.pc = "start"
    \/ r.op = "sync_repository" /\ r.pc = "delete"

\* one step of the request r; got is what a GET of the feed answers now
step(d, t, got, r) ==
    CASE r.op = "add_bookmark" -> add_bookmark(d, t, r)
      [] r.op = "search_bookmarks" -> search_bookmarks(d, r)
      [] r.op = "delete_bookmark" -> delete_bookmark(d, r)
      [] r.op = "add_repository" -> add_repository(d, t, got, r)
      [] r.op = "sync_repository" -> sync_repository(d, t, got, r)
      [] OTHER -> delete_repository(d, r)

\* the request r run to its response
RECURSIVE run(_, _, _, _)
run(d, t, got, r) ==
    IF r.pc = "done" THEN [db |-> d, r |-> r]
    ELSE LET n == step(d, t, got, r) IN run(n.db, t, got, n.r)

----------------------------------------------------------------------------
(* The configuration-file search (src/server/neosearch.py).  config is the *)
(* local_files list of config.yaml, the file save_config writes and the    *)
(* file load_config reads unless CONFIG_FILE_PATH names another one.       *)

reply(cfg, r, status, body) ==
    [config |-> cfg, r |-> [r EXCEPT !.pc = "done", !.status = status, !.body = body]]

\* CONFIG_FILE_PATH is unset, or names config.yaml itself
NotSet == [set |-> FALSE]

\* CONFIG_FILE_PATH names another file, which exists with this local_files list
ConfigAt(local_files) == [set |-> TRUE, exists |-> TRUE, local_files |-> local_files]

\* CONFIG_FILE_PATH names a file that does not exist
NoConfigAt == [set |-> TRUE, exists |-> FALSE]

\* config_path = os.getenv(CONFIG_ENV_VAR, CONFIG_PATH); 404 when no such file
load_config(cfg, env) ==
    IF ~env.set THEN [ok |-> TRUE, local_files |-> cfg]
    ELSE IF ~env.exists THEN [ok |-> FALSE, local_files |-> <<>>]
    ELSE [ok |-> TRUE, local_files |-> env.local_files]

\* open(CONFIG_PATH, 'w'): the new contents of config.yaml, whatever was loaded
save_config(local_files) == local_files

GO == <<"g", "o">>
GOLANG == <<"g", "o", "l", "a", "n", "g">>
BACKEND == <<"B", "a", "c", "k", "e", "n", "d">>
PYTHON == <<"P", "Y", "T", "H", "O", "N">>
MY_PYTHON_NOTES == <<"m", "y", " ", "p", "y", "t", "h", "o", "n", " ", "n", "o", "t", "e", "s">>

PATH_1 == <<"d", "1">>
PATH_2 == <<"d", "2">>
PATH_MISSING == <<"n", "f">>

E_GOLANG == JObj([url |-> JStr(HTTPS \o <<"g">>), description |-> JStr(BACKEND),
                  tags |-> JArr(<<JStr(GOLANG), JStr(lower(BACKEND))>>),
                  repository |-> JStr(PATH_1)])
E_PYTHON == JObj([url |-> JStr(HTTPS \o <<"p">>), description |-> JStr(MY_PYTHON_NOTES),
                  tags |-> JArr(<<JStr(lower(PYTHON))>>), stars |-> JNum(5)])
E_GO_DESCRIPTION == JObj([url |-> JStr(HTTPS \o <<"d">>), description |-> JStr(GO)])
E_OTHER == JObj([url |-> JStr(HTTPS \o <<"o">>), description |-> JStr(<<"O">>),
                 tags |-> JArr(<<JStr(<<"g", "o">>)>>), repository |-> JStr(PATH_2)])

\* json.load(file) of the files on disk; a missing file raises
read_json(repo) ==
    CASE repo = PATH_1 -> Fetched(JArr(<<E_GOLANG, E_PYTHON, E_GO_DESCRIPTION>>))
      [] repo = PATH_2 -> Fetched(JArr(<<E_OTHER>>))
      [] OTHER -> FetchFailed("missing")

validate_repository(repo) == read_json(repo).ok

RECURSIVE py_repr_join(_)
py_repr_join(xs) ==
    IF xs = <<>> THEN <<>>
    ELSE <<"'">> \o Head(xs).v \o <<"'">>
         \o (IF Len(xs) > 1 THEN <<",", " ">> ELSE <<>>) \o py_repr_join(Tail(xs))

\* str(value): a string as it is, a number in decimal, None, True, False, and
\* a list of strings as ['a', 'b']
py_str(x) ==
    CASE x.t = "str" -> x.v
      [] x.t = "num" -> decimal(x.v)
      [] x.t = "bool" -> IF x.v THEN <<"T", "r", "u", "e">> ELSE <<"F", "a", "l", "s", "e">>
      [] x.t = "arr" -> <<"[">> \o py_repr_join(x.v) \o <<"]">>
      [] OTHER -> <<"N", "o", "n", "e">>

\* keyword.lower() in text.lower()
keyword_in(keyword, text) == contains(lower(text), lower(keyword.v))

\* field in entry
has_field(entry, field) == \E f \in DOMAIN entry.v : key_text(f) = field.v

\* entry[field]
entry_field(entry, field) ==
    entry.v[CHOOSE f \in DOMAIN entry.v : key_text(f) = field.v]

\* the filter that leaves the field out of the test
field_filter_any_field(entry, keyword, field) ==
    \E f \in DOMAIN entry.v : keyword_in(keyword, py_str(entry.v[f]))

\* if keyword and field: the two list comprehensions
field_filter(entry, keyword, field) ==
    /\ has_field(entry, field)
    /\ IF field.v = key_text("tags")
       THEN LET tags == entry_field(entry, field)
            IN  \E i \in 1..Len(tags.v) : keyword_in(keyword, tags.v[i].v)
       ELSE keyword_in(keyword, py_str(entry_field(entry, field)))

\* elif keyword
keyword_filter(entry, keyword) ==
    \E f \in DOMAIN entry.v : keyword_in(keyword, py_str(entry.v[f]))

search_filter(entry, keyword, field) ==
    IF truthy(keyword) /\ truthy(field) THEN field_filter(entry, keyword, field)
    ELSE IF truthy(keyword) THEN keyword_filter(entry, keyword)
    ELSE TRUE

\* if repository: entry.get("repository") == repository
repository_filter(entry, repository) ==
    truthy(repository) => dict_get(entry, "repository", JNull) = repository

RECURSIVE search_repositories(_, _, _, _)
search_repositories(repositories, keyword, repository, field) ==
    IF repositories = <<>> THEN <<>>
    ELSE LET repo == Head(repositories)
             keep(entry) == /\ search_filter(entry, keyword, field)
                            /\ repository_filter(entry, repository)
         IN  (IF validate_repository(repo)
              THEN SelectSeq(read_json(repo).json.v, keep)
              ELSE <<>>)
             \o search_repositories(Tail(repositories), keyword, repository, field)

\* GET /search
search(cfg, env, r) ==
    LET loaded == load_config(cfg, env)
    IN  IF ~loaded.ok THEN reply(cfg, r, 404, <<>>)
        ELSE reply(cfg, r, 200,
                   search_repositories(loaded.local_files, r.a.keyword, r.a.repository,
                                       r.a.field))

in_list(xs, x) == \E i \in 1..Len(xs) : xs[i] = x

\* list.remove(x): the first x
RECURSIVE list_remove(_, _)
list_remove(xs, x) ==
    IF xs = <<>> THEN <<>>
    ELSE IF Head(xs) = x THEN Tail(xs) ELSE <<Head(xs)>> \o list_remove(Tail(xs), x)

\* POST /repositories/add
config_add_repository(cfg, env, r) ==
    LET loaded == load_config(cfg, env)
    IN  IF ~loaded.ok THEN reply(cfg, r, 404, <<>>)
        ELSE IF in_list(loaded.local_files, r.a.path) THEN reply(cfg, r, 400, <<>>)
        ELSE reply(save_config(Append(loaded.local_files, r.a.path)), r, 200, <<>>)

\* POST /repositories/delete
config_delete_repository(cfg, env, r) ==
    LET loaded == load_config(cfg, env)
    IN  IF ~loaded.ok THEN reply(cfg, r, 404, <<>>)
        ELSE IF ~in_list(loaded.local_files, r.a.path) THEN reply(cfg, r, 404, <<>>)
        ELSE reply(save_config(list_remove(loaded.local_files, r.a.path)), r, 200, <<>>)

\* GET /repositories/list
list_repositories(cfg, env, r) ==
    LET loaded == load_config(cfg, env)
    IN  IF ~loaded.ok THEN reply(cfg, r, 404, <<>>)
        ELSE reply(cfg, r, 200, loaded.local_files)

\* the request r of the configuration-file search, run to its response
serve(cfg, env, r) ==
    CASE r.op = "search" -> search(cfg, env, r)
      [] r.op = "config_add_repository" -> config_add_repository(cfg, env, r)
      [] r.op = "list_repositories" -> list_repositories(cfg, env, r)
      [] OTHER -> config_delete_repository(cfg, env, r)

----------------------------------------------------------------------------
(* Inputs *)

U_A == HTTPS \o <<"a">>
U_B == HTTPS \o <<"b">>
FEED_URL == HTTP \o <<"f">>
FTP_URL == <<"f", "t", "p", ":", "/", "/", "f">>

\* feed entries: the three of the end-to-end example, and entries whose values
\* are not the strings the feed format asks for
ENTRY_A == JObj([url |-> JStr(U_A), description |-> JStr(<<"A">>)])
ENTRY_NO_URL == JObj([description |-> JStr(<<"n", "o">>)])
ENTRY_B == JObj([url |-> JStr(U_B), description |-> JStr(<<"B">>),
                 tags |-> JArr(<<JStr(<<"x">>)>>)])
ENTRY_EMPTY_URL == JObj([url |-> JStr(<<>>), description |-> JStr(<<"A">>)])
ENTRY_LIST_CATEGORY == JObj([url |-> JStr(U_A), description |-> JStr(<<"A">>),
                             category |-> JArr(<<JStr(<<"x">>)>>)])
ENTRY_SCALARS == JObj([url |-> JStr(U_B), description |-> JNum(7),
                       tags |-> JStr(<<"x">>), category |-> JNull])

FEED_EXAMPLE == Fetched(JArr(<<ENTRY_A, ENTRY_NO_URL, ENTRY_B>>))
FEED_ONE == Fetched(JArr(<<ENTRY_A>>))
FEED_ODD == Fetched(JArr(<<ENTRY_LIST_CATEGORY, ENTRY_EMPTY_URL>>))
FEED_SCALARS == Fetched(JArr(<<ENTRY_SCALARS, JStr(<<"z">>)>>))
FEED_OBJECT == Fetched(JObj([error |-> JStr(<<"x">>)]))
FEED_NUMBER == Fetched(JNum(7))

FetchResults ==
    { FEED_EXAMPLE, FEED_ODD, FEED_SCALARS, FEED_OBJECT, FEED_NUMBER,
      FetchFailed("request"), FetchFailed("json") }

\* the answers the environment may give to the GET of r's next step, where
\* requests run concurrently
ConcurrentFetchResults == {FEED_EXAMPLE, FEED_ONE, FetchFailed("request")}

Answers(r) == IF fetches(r) THEN ConcurrentFetchResults ELSE {NoFetch}

\* the answers it may give to the one GET of a whole run of r
RunAnswers(r) ==
    IF r.op \in {"add_repository", "sync_repository"} THEN FetchResults ELSE {NoFetch}

User(u) == Bearer(TRUE, u)

\* a manual bookmark with the fields the import gives ENTRY_A
BOOKMARK_A == [url |-> JStr(U_A), description |-> JStr(<<"A">>), tags |-> JArr(<<>>),
               category |-> JStr(IMPORTED)]

REPOSITORY_R == [name |-> <<"r">>, url |-> FEED_URL]
REPOSITORY_S == [name |-> <<"s">>, url |-> FEED_URL]

TieOrders == {"rowid_asc", "rowid_desc"}

AddBookmarkRequests ==
    { NewRequest("add_bookmark", User(1), BOOKMARK_A),
      NewRequest("add_bookmark", User(1), [BOOKMARK_A EXCEPT !.url = JStr(FTP_URL)]),
      NewRequest("add_bookmark", NoCredentials, BOOKMARK_A) }

SearchRequests ==
    { NewRequest("search_bookmarks", c, [keyword |-> k, field |-> JNull, tie |-> "rowid_asc"]) :
        c \in {NoCredentials, User(1)}, k \in {JNull, JStr(<<"a">>)} }
    \cup { NewRequest("search_bookmarks", NoCredentials,
                      [keyword |-> JNull, field |-> JNull, tie |-> "rowid_desc"]) }

DeleteBookmarkRequests ==
    { NewRequest("delete_bookmark", User(1), [bookmark_id |-> id]) : id \in {1, 2, 4} }
    \cup { NewRequest("delete_bookmark", NoCredentials, [bookmark_id |-> 1]) }

AddRepositoryRequests ==
    { NewRequest("add_repository", User(1), REPOSITORY_R),
      NewRequest("add_repository", User(1), [REPOSITORY_R EXCEPT !.url = FTP_URL]),
      NewRequest("add_repository", NoCredentials, REPOSITORY_R) }

SyncRepositoryRequests ==
    { NewRequest("sync_repository", User(1), [repository_id |-> id]) : id \in 1..MaxRepositoryId }
    \cup { NewRequest("sync_repository", NoCredentials, [repository_id |-> 1]) }

DeleteRepositoryRequests ==
    { NewRequest("delete_repository", User(1), [repository_id |-> id]) :
        id \in 1..MaxRepositoryId }
    \cup { NewRequest("delete_repository", NoCredentials, [repository_id |-> 1]) }

\* the requests of user 1 that run concurrently
ConcurrentRequests ==
    { NewRequest("add_bookmark", User(1), BOOKMARK_A),
      NewRequest("search_bookmarks", User(1),
                 [keyword |-> JNull, field |-> JNull, tie |-> "rowid_asc"]),
      NewRequest("add_repository", User(1), REPOSITORY_R) }
    \cup { NewRequest("delete_bookmark", User(1), [bookmark_id |-> id]) :
              id \in 1..MaxBookmarkId }
    \cup { NewRequest(op, User(1), [repository_id |-> id]) :
              op \in {"sync_repository", "delete_repository"}, id \in 1..MaxRepositoryId }

Requests(op) == {r \in ConcurrentRequests : r.op = op}

\* The database file outlives the process.  It may hold rows written earlier
\* through create_bookmark, whose is_public parameter no endpoint sets, and
\* what was imported earlier: here a private bookmark of user 1, the
\* repository "r" of user 2 and the repository "s" of user 1, each with its
\* one bookmark.
SeededDb ==
    run(run(create_bookmark(EmptyDb, 0, 1, JStr(U_A), JStr(<<"A">>), JArr(<<>>),
                            JStr(IMPORTED), JNull, FALSE).db,
            0, FEED_ONE, NewRequest("add_repository", User(2), REPOSITORY_R)).db,
        0, FEED_ONE, NewRequest("add_repository", User(1), REPOSITORY_S)).db

----------------------------------------------------------------------------
(* The state machine *)

Workers == {"w1", "w2"}

Init ==
    /\ db = SeededDb
    /\ now = 0
    /\ req = [w \in Workers |-> NoRequest]
    /\ config = <<>>
    /\ env_config = NotSet
    /\ request_history = <<>>
    /\ forwarded = <<>>

Within(d) == d.seq.bookmarks <= MaxBookmarkId /\ d.seq.repositories <= MaxRepositoryId

\* worker w takes one step of the request r
Take(w, r) ==
    \E got \in Answers(r) :
        LET n == step(db, now, got, r)
        IN  /\ Within(n.db)
            /\ db' = n.db
            /\ req' = [req EXCEPT ![w] = n.r]
            /\ UNCHANGED <<now, config, env_config, request_history, forwarded>>

Free(w) == req[w].pc = "done"

Continue(w, op) == req[w].op = op /\ req[w].pc # "done" /\ Take(w, req[w])

AddBookmark(w) ==
    \/ Free(w) /\ \E r \in Requests("add_bookmark") : Take(w, r)
    \/ Continue(w, "add_bookmark")

Search(w) == Free(w) /\ \E r \in Requests("search_bookmarks") : Take(w, r)

DeleteBookmark(w) == Free(w) /\ \E r \in Requests("delete_bookmark") : Take(w, r)

AddRepository(w) ==
    \/ Free(w) /\ \E r \in Requests("add_repository") : Take(w, r)
    \/ Continue(w, "add_repository")

SyncRepository(w) ==
    \/ Free(w) /\ \E r \in Requests("sync_repository") : Take(w, r)
    \/ Continue(w, "sync_repository")

DeleteRepository(w) ==
    \/ Free(w) /\ \E r \in Requests("delete_repository") : Take(w, r)
    \/ Continue(w, "delete_repository")

Next ==
    \/ \E w \in Workers : AddBookmark(w)
    \/ \E w \in Workers : Search(w)
    \/ \E w \in Workers : DeleteBookmark(w)
    \/ \E w \in Workers : AddRepository(w)
    \/ \E w \in Workers : SyncRepository(w)
    \/ \E w \in Workers : DeleteRepository(w)

Spec == Init /\ [][Next]_vars

\* One request at a time: the handler runs from its first step to its response.
Complete(r) ==
    \E got \in RunAnswers(r) :
        LET n == run(db, now, got, r)
            p == req["w1"]
            again == /\ p.op = r.op /\ p.credentials = r.credentials /\ p.a = r.a
                     /\ p.fetched = n.r.fetched
        IN  /\ Within(n.db)
            /\ db' = n.db
            /\ req' = [req EXCEPT !["w1"] = [n.r EXCEPT !.again = again]]
            /\ UNCHANGED <<now, config, env_config, request_history, forwarded>>

AddBookmarkSeq == \E r \in AddBookmarkRequests : Complete(r)
SearchSeq == \E r \in SearchRequests : Complete(r)
DeleteBookmarkSeq == \E r \in DeleteBookmarkRequests : Complete(r)
AddRepositorySeq == \E r \in AddRepositoryRequests : Complete(r)
SyncRepositorySeq == \E r \in SyncRepositoryRequests : Complete(r)
DeleteRepositorySeq == \E r \in DeleteRepositoryRequests : Complete(r)

NextSeq ==
    \/ AddBookmarkSeq
    \/ SearchSeq
    \/ DeleteBookmarkSeq
    \/ AddRepositorySeq
    \/ SyncRepositorySeq
    \/ DeleteRepositorySeq

SpecSeq == Init /\ [][NextSeq]_vars

----------------------------------------------------------------------------
(* Properties of requests that run one at a time (SpecSeq).  Every step of *)
(* SpecSeq runs the request it leaves in req["w1"], from db to db'.        *)

Last == req["w1"]
Ran == req'["w1"]

Count(xs, P(_)) == Cardinality({i \in 1..Len(xs) : P(xs[i])})

NonEmptyString(x) == x.t = "str" /\ x.v # <<>>

\* an entry with a url and a description, both non-empty
HasUrlAndDescription(item) ==
    /\ item.t = "obj"
    /\ {"url", "description"} \subseteq DOMAIN item.v
    /\ NonEmptyString(item.v.url) /\ NonEmptyString(item.v.description)

\* an entry whose url and description are truthy and whose url, description
\* and category are not arrays or objects
Importable(item) ==
    /\ item.t = "obj"
    /\ {"url", "description"} \subseteq DOMAIN item.v
    /\ truthy(item.v.url) /\ truthy(item.v.description)
    /\ \A k \in DOMAIN item.v \cap {"url", "description", "category"} :
           item.v[k].t \notin {"arr", "obj"}

ArrayOfObjects(f) ==
    f.ok /\ f.json.t = "arr" /\ \A i \in 1..Len(f.json.v) : f.json.v[i].t = "obj"

\* the step added m bookmarks, all the caller's and from the new repository,
\* touched no other, and reported m
ImportedExactly(m) ==
    LET new == db'.bookmarks \ db.bookmarks
    IN  /\ Ran.body.bookmarks_imported = m
        /\ Cardinality(new) = m
        /\ db.bookmarks \subseteq db'.bookmarks
        /\ \A b \in new : b.user_id = Ran.user_id /\ b.source = JStr(Ran.a.name)

\* C1 as stated: a successful import of an array of N objects, M of them with
\* a non-empty url and a non-empty description, creates exactly M bookmarks of
\* the caller with source = the repository name and reports M.
C1_ImportCountsUrlAndDescription ==
    [][(Ran.op = "add_repository" /\ Ran.status = 200 /\ ArrayOfObjects(Ran.fetched))
          => ImportedExactly(Count(Ran.fetched.json.v, HasUrlAndDescription))]_vars

\* C1 amended: M counts the entries with a truthy url and description whose
\* url, description and category sqlite3 can bind (no array, no object); the
\* import creates exactly those M bookmarks and reports M, the other N-M
\* entries are passed over and the import still succeeds.
C1_ImportCountsStorableEntries ==
    [][(Ran.op = "add_repository" /\ Ran.status = 200 /\ ArrayOfObjects(Ran.fetched))
          => ImportedExactly(Count(Ran.fetched.json.v, Importable))]_vars

\* the example feed was imported: three entries, two bookmarks
C1_Witness ==
    /\ Last.op = "add_repository" /\ Last.status = 200
    /\ Last.fetched = FEED_EXAMPLE
    /\ Last.body.bookmarks_imported = 2
    /\ Cardinality({b \in db.bookmarks : b.user_id = 1 /\ b.source = JStr(<<"r">>)}) = 2

RECURSIVE by_id(_)
by_id(rows) ==
    IF rows = {} THEN <<>>
    ELSE LET b == CHOOSE x \in rows : \A y \in rows : x.id <= y.id
         IN  <<[url |-> b.url, description |-> b.description, tags |-> b.tags,
                category |-> b.category, source |-> b.source]>> \o by_id(rows \ {b})

\* the bookmarks of one repository, without their ids and timestamps
RepositoryBookmarks(d, user_id, name) ==
    by_id({b \in d.bookmarks : b.user_id = user_id /\ b.source = JStr(name)})

\* C2: a resync that follows a resync of the same repository, the feed
\* answering the same, leaves the repository's bookmarks as the first left
\* them: same count, same url, description, tags, category and source.
C2_ResyncIdempotent ==
    [][(/\ Last.op = "sync_repository" /\ Ran.op = "sync_repository"
        /\ Last.credentials = Ran.credentials /\ Last.a = Ran.a
        /\ Last.fetched = Ran.fetched
        /\ Ran.status \notin {401, 404})
          => \A x \in get_repository_by_id(db, Ran.a.repository_id, Ran.user_id) :
                 RepositoryBookmarks(db', x.user_id, x.name)
                     = RepositoryBookmarks(db, x.user_id, x.name)]_vars

\* a second resync in succession has reimported a bookmark
C2_Witness ==
    /\ Last.op = "sync_repository" /\ Last.again
    /\ Last.status = 200 /\ Last.body.bookmarks_imported >= 1
    /\ \E b \in db.bookmarks : b.user_id = Last.user_id /\ b.source = JStr(Last.l.name)

\* C3 as stated: a resync whose fetch fails reports the error and leaves the
\* bookmarks as they were.
C3_FailedFetchKeepsBookmarks ==
    [][(Ran.op = "sync_repository" /\ Ran.status = 400)
          => db'.bookmarks = db.bookmarks]_vars

\* what a search result shows of a bookmark, its owner included
Shown(x) ==
    [url |-> x.url, description |-> x.description, category |-> x.category,
     source |-> x.source, username |-> x.username]

ShownOf(b) ==
    [url |-> b.url, description |-> b.description, category |-> b.category,
     source |-> b.source,
     username |-> IF get_user_by_id(b.user_id) = {} THEN JNull
                  ELSE the(get_user_by_id(b.user_id)).username]

\* C5: every result of an anonymous search carries the username of its owner
\* and is the row of a bookmark with is_public = 1: no more results show a
\* given content than there are public bookmarks with it, so no private
\* bookmark is among them, whether or not it matches the keyword.
C5_PublicSearchShowsOnlyPublic ==
    [][(Ran.op = "search_bookmarks" /\ get_current_user_optional(Ran.credentials) = {})
          => /\ Ran.status = 200
             /\ \A i \in 1..Len(Ran.body) :
                    /\ Ran.body[i].username.t = "str"
                    /\ Cardinality({j \in 1..Len(Ran.body) :
                                        Shown(Ran.body[j]) = Shown(Ran.body[i])})
                         <= Cardinality({b \in db.bookmarks :
                                             /\ b.is_public = 1
                                             /\ get_user_by_id(b.user_id) # {}
                                             /\ ShownOf(b) = Shown(Ran.body[i])})]_vars

\* an anonymous search for "a" returned public bookmarks while a private
\* bookmark that matches "a" is stored
C5_Witness ==
    /\ Last.op = "search_bookmarks" /\ Last.credentials = NoCredentials
    /\ Last.a.keyword = JStr(<<"a">>)
    /\ Last.status = 200 /\ Len(Last.body) >= 2
    /\ \E b \in db.bookmarks : b.is_public = 0 /\ keyword_where(b, Last.a.keyword)

\* C6: a repository delete that succeeds removes the repository row and
\* exactly the caller's bookmarks whose source is the repository's name; the
\* caller's other bookmarks and every other user's stay.
C6_DeleteRepositoryRemovesItsBookmarks ==
    [][(Ran.op = "delete_repository" /\ Ran.status = 200)
          => LET rows == {x \in db.repositories :
                             x.id = Ran.a.repository_id /\ x.user_id = Ran.user_id}
             IN  /\ Cardinality(rows) = 1
                 /\ db'.repositories = db.repositories \ rows
                 /\ db'.bookmarks =
                        {b \in db.bookmarks :
                            ~(b.user_id = Ran.user_id /\ b.source = JStr(the(rows).name))}]_vars

\* user 1's repository r was deleted; a manual bookmark and a bookmark from
\* repository s of user 1 are left, and so is user 2's bookmark from its own r
C6_Witness ==
    /\ Last.op = "delete_repository" /\ Last.status = 200
    /\ Last.user_id = 1 /\ Last.l.repo_name = <<"r">>
    /\ \E b \in db.bookmarks : b.user_id = 1 /\ b.source = JNull
    /\ \E b \in db.bookmarks : b.user_id = 1 /\ b.source = JStr(<<"s">>)
    /\ \E b \in db.bookmarks : b.user_id = 2 /\ b.source = JStr(<<"r">>)
    /\ \A b \in db.bookmarks : ~(b.user_id = 1 /\ b.source = JStr(<<"r">>))

HasScheme(url) ==
    \/ Len(url) >= 7 /\ SubSeq(url, 1, 7) = <<"h", "t", "t", "p", ":", "/", "/">>
    \/ Len(url) >= 8 /\ SubSeq(url, 1, 8) = <<"h", "t", "t", "p", "s", ":", "/", "/">>

\* C7: an import by an authenticated caller that fails at URL validation, at
\* the fetch, or at the shape check (the feed is not an array) answers 400 and
\* leaves the whole database as it was: no repository row, no bookmark.
C7_FailedImportChangesNothing ==
    [][(/\ Ran.op = "add_repository" /\ Ran.status # 401
        /\ \/ ~HasScheme(Ran.a.url)
           \/ ~Ran.fetched.ok
           \/ Ran.fetched.json.t # "arr")
          => Ran.status = 400 /\ db' = db]_vars

\* an import was refused because the feed is a JSON object
C7_Witness ==
    /\ Last.op = "add_repository" /\ Last.status = 400
    /\ Last.fetched = FEED_OBJECT
    /\ \A x \in db.repositories : ~(x.user_id = Last.user_id /\ x.name = Last.a.name)

----------------------------------------------------------------------------
(* Properties of requests that overlap (Spec).                             *)

\* how many of the results come from the repository named name
FromSource(results, name) ==
    Cardinality({i \in 1..Len(results) : results[i].source = JStr(name)})

\* C4 as stated: a search by the owner that is answered while a resync of one
\* of their repositories is under way, the repository having had bookmarks
\* and the new feed holding a valid entry, shows the repository's bookmarks
\* either all as they were or all as reimported, never none and never a part.
C4_ReaderSeesWholeSet ==
    [][\A w \in Workers, v \in Workers :
          (/\ req[w].pc = "done" /\ req'[w].pc = "done" /\ req'[w] # req[w]
           /\ req'[w].op = "search_bookmarks" /\ req'[w].status = 200
           /\ req'[w].a.keyword = JNull
           /\ req[v].op = "sync_repository" /\ req[v].pc = "import"
           /\ get_current_user_optional(req'[w].credentials)
                  = get_user_by_id(req[v].user_id)
           /\ req[v].before # {}
           /\ Count(req[v].fetched.json.v, Importable) >= 1)
             => FromSource(req'[w].body, req[v].l.name)
                    \in {Cardinality(req[v].before),
                         Count(req[v].fetched.json.v, Importable)}]_vars

\* C8 as stated, for the states in which no request is under way: every
\* bookmark with a source has a repository of the same owner with that name.
C8_NoOrphanedBookmarks ==
    (\A w \in Workers : req[w].pc = "done")
        => \A b \in db.bookmarks :
               b.source # JNull
                   => \E x \in db.repositories :
                          x.user_id = b.user_id /\ JStr(x.name) = b.source

----------------------------------------------------------------------------
(* Searching (SpecSearch): bookmarks are added to an empty database and    *)
(* files to the configuration, and both services are searched.             *)

MaxSearchRows == 2      \* bookmarks added before the searches
MaxLocalFiles == 1      \* paths in local_files

TAGS == key_text("tags")
DESCRIPTION == key_text("description")

B_PYTHON == [url |-> JStr(HTTPS \o <<"p">>), description |-> JStr(MY_PYTHON_NOTES),
             tags |-> JArr(<<JStr(lower(PYTHON))>>), category |-> JStr(<<"U">>)]
B_GOLANG == [url |-> JStr(HTTPS \o <<"g">>), description |-> JStr(BACKEND),
             tags |-> JArr(<<JStr(GOLANG), JStr(lower(BACKEND))>>), category |-> JStr(<<"D">>)]
B_GO_DESCRIPTION == [url |-> JStr(HTTPS \o <<"d">>), description |-> JStr(GO),
                     tags |-> JArr(<<JStr(<<"é">>)>>), category |-> JStr(<<"U">>)]

Keywords == {JNull, JStr(PYTHON), JStr(GO), JStr(<<"[">>), JStr(<<"é">>)}

RichAddBookmarkRequests ==
    { NewRequest("add_bookmark", User(1), b) :
        b \in {B_PYTHON, B_GOLANG, B_GO_DESCRIPTION} }

RichSearchRequests ==
    { NewRequest("search_bookmarks", User(1),
                 [keyword |-> k, field |-> f, tie |-> "rowid_asc"]) :
        k \in Keywords, f \in {JNull, JStr(TAGS)} }
    \cup { NewRequest("search_bookmarks", NoCredentials,
                      [keyword |-> JStr(GO), field |-> f, tie |-> "rowid_asc"]) :
              f \in {JNull, JStr(TAGS)} }

ServerSearchRequests ==
    { NewRequest("search", NoCredentials, [keyword |-> k, repository |-> JNull, field |-> f]) :
        k \in Keywords, f \in {JNull, JStr(TAGS), JStr(DESCRIPTION)} }
    \cup { NewRequest("search", NoCredentials,
                      [keyword |-> JStr(GO), repository |-> JStr(PATH_1), field |-> JStr(TAGS)]) }

ConfigRequests(op) ==
    { NewRequest(op, NoCredentials, [path |-> path]) :
        path \in {PATH_1, PATH_2, PATH_MISSING} }

InitSearch ==
    /\ db = EmptyDb
    /\ now = 0
    /\ req = [w \in Workers |-> NoRequest]
    /\ config = <<>>
    /\ env_config = NotSet
    /\ request_history = <<>>
    /\ forwarded = <<>>

Serve(r) ==
    LET n == serve(config, env_config, r)
    IN  /\ Len(n.config) <= MaxLocalFiles
        /\ config' = n.config
        /\ req' = [req EXCEPT !["w1"] = n.r]
        /\ UNCHANGED <<db, now, env_config, request_history, forwarded>>

AddBookmarkRich ==
    /\ db.seq.bookmarks < MaxSearchRows
    /\ \E r \in RichAddBookmarkRequests : Complete(r)

SearchRich == \E r \in RichSearchRequests : Complete(r)
ConfigAddRepository == \E r \in ConfigRequests("config_add_repository") : Serve(r)
ConfigDeleteRepository == \E r \in ConfigRequests("config_delete_repository") : Serve(r)
ServerSearch == \E r \in ServerSearchRequests : Serve(r)

NextSearch ==
    \/ AddBookmarkRich
    \/ SearchRich
    \/ ConfigAddRepository
    \/ ConfigDeleteRepository
    \/ ServerSearch

SpecSearch == InitSearch /\ [][NextSearch]_vars

\* k occurs in s, letters compared without case
CiSubstring(k, s) ==
    \E i \in 0..(Len(s) - Len(k)) :
        \A j \in 1..Len(k) : lower_char(s[i + j]) = lower_char(k[j])

\* the bookmarks a search with these credentials chooses from
Candidates(d, credentials) ==
    IF get_current_user_optional(credentials) # {}
    THEN {b \in d.bookmarks : b.user_id = the(get_current_user_optional(credentials)).id}
    ELSE {b \in d.bookmarks : b.is_public = 1 /\ get_user_by_id(b.user_id) # {}}

\* the bookmark b is among the results
Returned(b, results) ==
    \E i \in 1..Len(results) :
        /\ results[i].url = b.url /\ results[i].description = b.description
        /\ results[i].category = b.category /\ results[i].source = b.source
        /\ results[i].tags = load_tags(b).tags

InSomeTag(k, tags) == \E i \in 1..Len(tags.v) : CiSubstring(k, tags.v[i].v)

\* C9 as stated: a search with a keyword and no field returns a candidate
\* exactly if the keyword occurs, without regard to case, in its url, its
\* description, its category or one of its tags.
C9_KeywordMatchesValuesOnly ==
    [][(/\ Ran.op = "search_bookmarks" /\ Ran.status = 200
        /\ truthy(Ran.a.keyword) /\ ~truthy(Ran.a.field))
          => \A b \in Candidates(db, Ran.credentials) :
                 Returned(b, Ran.body)
                     <=> \/ CiSubstring(Ran.a.keyword.v, b.url.v)
                         \/ CiSubstring(Ran.a.keyword.v, b.description.v)
                         \/ CiSubstring(Ran.a.keyword.v, b.category.v)
                         \/ InSomeTag(Ran.a.keyword.v, load_tags(b).tags)]_vars

\* the entries of the configured files that can be read, those of another
\* repository than the one asked for left out
Entries(cfg, repository) ==
    {e \in UNION {{read_json(cfg[i]).json.v[j] : j \in 1..Len(read_json(cfg[i]).json.v)} :
                     i \in {n \in 1..Len(cfg) : read_json(cfg[n]).ok}} :
        truthy(repository) =>
            "repository" \in DOMAIN e.v /\ e.v.repository = repository}

\* the keyword occurs in the named field of the entry, and for tags in one of them
InField(e, k, field) ==
    \E f \in DOMAIN e.v :
        /\ key_text(f) = field
        /\ IF f = "tags" THEN InSomeTag(k, e.v[f]) ELSE CiSubstring(k, py_str(e.v[f]))

\* the field of a stored bookmark
InColumn(b, k, field) ==
    CASE field = TAGS -> InSomeTag(k, load_tags(b).tags)
      [] field = DESCRIPTION -> CiSubstring(k, b.description.v)
      [] field = key_text("url") -> CiSubstring(k, b.url.v)
      [] field = key_text("category") -> CiSubstring(k, b.category.v)
      [] OTHER -> FALSE

FieldScopedFileSearch ==
    (/\ Ran.op = "search" /\ truthy(Ran.a.keyword) /\ truthy(Ran.a.field))
        => /\ Ran.status = 200
           /\ \A e \in Entries(config, Ran.a.repository) :
                  in_list(Ran.body, e) <=> InField(e, Ran.a.keyword.v, Ran.a.field.v)
           /\ \A i \in 1..Len(Ran.body) : Ran.body[i] \in Entries(config, Ran.a.repository)

----------------------------------------------------------------------------
(* The backend with a clock.  created_at and last_synced are                *)
(* CURRENT_TIMESTAMP, read by each statement when it runs: the clock may    *)
(* advance between any two transactions of a handler.  One worker, one      *)
(* transaction per step.                                                    *)

MaxTime == 2

ScopedCredentials ==
    {NoCredentials, User(1), User(2), Bearer(FALSE, 1), Bearer(TRUE, 3)}

ScopedSearchRequests ==
    { NewRequest("search_bookmarks", c, [keyword |-> k, field |-> JNull, tie |-> tie]) :
        c \in ScopedCredentials, k \in {JNull, JStr(<<"a">>)},
        tie \in {"rowid_asc", "rowid_desc"} }

TimedSyncRequests ==
    { NewRequest("sync_repository", User(1), [repository_id |-> i]) : i \in {1, 2, 3} }

TimedAnswers(r) ==
    IF fetches(r) THEN {FEED_EXAMPLE, FEED_OBJECT, FEED_NUMBER, FetchFailed("request")}
    ELSE {NoFetch}

\* the worker takes one step of the request r
TakeTimed(r) ==
    \E got \in TimedAnswers(r) :
        LET n == step(db, now, got, r)
        IN  /\ Within(n.db)
            /\ db' = n.db
            /\ req' = [req EXCEPT !["w1"] = n.r]
            /\ UNCHANGED <<now, config, env_config, request_history, forwarded>>

Tick ==
    /\ now < MaxTime /\ now' = now + 1
    /\ UNCHANGED <<db, req, config, env_config, request_history, forwarded>>

AddBookmarkTimed ==
    Free("w1") /\ TakeTimed(NewRequest("add_bookmark", User(1), BOOKMARK_A))

SearchTimed == Free("w1") /\ \E r \in ScopedSearchRequests : TakeTimed(r)

SyncRepositoryTimed == Free("w1") /\ \E r \in TimedSyncRequests : TakeTimed(r)

ContinueTimed == ~Free("w1") /\ TakeTimed(req["w1"])

NextTime ==
    \/ Tick
    \/ AddBookmarkTimed
    \/ SearchTimed
    \/ SyncRepositoryTimed
    \/ ContinueTimed

SpecTime == Init /\ [][NextTime]_vars

\* what a result shows of a row of the bookmarks table
Content(x) ==
    [url |-> x.url, description |-> x.description, category |-> x.category,
     source |-> x.source]

OwnBookmarks(d, user_id) == {b \in d.bookmarks : b.user_id = user_id}

Authenticated(credentials) ==
    credentials.t = "bearer" /\ credentials.valid /\ credentials.sub \in UserIds

\* C11: a search with a valid token draws its results from the bookmarks of
\* the token's user, private ones included: without a keyword it returns as
\* many results as the user has bookmarks, and with or without one no more
\* results show a given content than the user has bookmarks with it, so a
\* bookmark of another user is never among them.
C11_OwnerSearchOwnBookmarks ==
    [][(Ran.op = "search_bookmarks" /\ Authenticated(Ran.credentials))
          => LET own == OwnBookmarks(db, Ran.credentials.sub)
             IN  /\ Ran.status = 200
                 /\ ~truthy(Ran.a.keyword) => Len(Ran.body) = Cardinality(own)
                 /\ \A i \in 1..Len(Ran.body) :
                        Cardinality({j \in 1..Len(Ran.body) :
                                         Content(Ran.body[j]) = Content(Ran.body[i])})
                          <= Cardinality({b \in own : Content(b) = Content(Ran.body[i])})]_vars

\* user 1 searched without a keyword and got all of their bookmarks, a
\* private one among them, while another user's bookmark is stored
C11_Witness ==
    /\ Last.op = "search_bookmarks" /\ Last.credentials = User(1) /\ Last.pc = "done"
    /\ Last.a.keyword = JNull
    /\ Len(Last.body) = Cardinality(OwnBookmarks(db, 1))
    /\ \E b \in OwnBookmarks(db, 1) :
           b.is_public = 0 /\ \E i \in 1..Len(Last.body) : Content(Last.body[i]) = Content(b)
    /\ \E b \in db.bookmarks : b.user_id = 2

\* the rows a search may return: the user's with a valid token, the public
\* ones without, and of these the ones the keyword selects
Selected(d, r) ==
    {b \in d.bookmarks :
        /\ IF Authenticated(r.credentials) THEN b.user_id = r.credentials.sub
           ELSE b.is_public = 1
        /\ truthy(r.a.keyword) => keyword_where(b, r.a.keyword)}

\* C12: the results of a search are the selected rows, newest created_at
\* first, and rows with the same created_at in the order of their insertion.
C12_NewestFirstTiesInInsertionOrder ==
    [][Ran.op = "search_bookmarks"
          => LET rows == Selected(db, Ran)
                 n == Len(Ran.body)
             IN  /\ n = Cardinality(rows)
                 /\ \E f \in [1..n -> rows] :
                        /\ \A i \in 1..n : Content(f[i]) = Content(Ran.body[i])
                        /\ \A i, j \in 1..n :
                               i < j => \/ f[i].created_at > f[j].created_at
                                        \/ /\ f[i].created_at = f[j].created_at
                                           /\ f[i].id < f[j].id]_vars

ResultFields == {"url", "description", "tags", "category", "source", "username"}

\* C13: every element of the response of a search, with or without a valid
\* token, has exactly the fields url, description, tags, category, source
\* and username (a string or null): the id, user_id, is_public and
\* created_at of the row are not in it.
C13_ResultsExposeSixFields ==
    [][Ran.op = "search_bookmarks"
          => /\ Ran.status = 200
             /\ \A i \in 1..Len(Ran.body) :
                    /\ DOMAIN Ran.body[i] = ResultFields
                    /\ Ran.body[i].username.t \in {"str", "null"}
                    /\ Ran.body[i].tags.t = "arr"]_vars

\* user 2 searched their bookmarks and got results of the six fields, while
\* a public bookmark of another user is stored
C13_Witness ==
    /\ Last.op = "search_bookmarks" /\ Last.pc = "done"
    /\ Last.credentials = User(2)
    /\ Len(Last.body) >= 1
    /\ \A i \in 1..Len(Last.body) : DOMAIN Last.body[i] = ResultFields
    /\ \E b \in db.bookmarks : b.is_public = 1 /\ b.user_id # 2

PublicBookmarks(d) == {b \in d.bookmarks : b.is_public = 1}

\* C18: a search is never rejected for its credentials.  Without a token,
\* with a token that does not verify, or with the token of a user that is
\* not in the users table, it is answered in the public scope: every result
\* names its owner and is backed by a public bookmark, and without a keyword
\* there are as many results as public bookmarks.  With the valid token of
\* an existing user it is answered in the owner scope: results without a
\* username, backed by the user's bookmarks.
C18_SearchAuthenticationOptional ==
    [][Ran.op = "search_bookmarks"
          => LET rows == IF Authenticated(Ran.credentials)
                         THEN OwnBookmarks(db, Ran.credentials.sub)
                         ELSE PublicBookmarks(db)
             IN  /\ Ran.status = 200
                 /\ ~truthy(Ran.a.keyword) => Len(Ran.body) = Cardinality(rows)
                 /\ \A i \in 1..Len(Ran.body) :
                        /\ Ran.body[i].username.t =
                               IF Authenticated(Ran.credentials) THEN "null" ELSE "str"
                        /\ \E b \in rows : Content(b) = Content(Ran.body[i])]_vars

\* a search with the token of user 3, who is not in the users table, was
\* answered 200 with the public bookmarks
C18_Witness ==
    /\ Last.op = "search_bookmarks" /\ Last.pc = "done"
    /\ Last.credentials = Bearer(TRUE, 3) /\ get_user_by_id(3) = {}
    /\ Last.a.keyword = JNull
    /\ Last.status = 200
    /\ Len(Last.body) = Cardinality(PublicBookmarks(db))
    /\ Len(Last.body) >= 2
    /\ \E b \in db.bookmarks : b.is_public = 0

\* a repositories row without its last_synced
Registered(x) ==
    [id |-> x.id, user_id |-> x.user_id, name |-> x.name, url |-> x.url,
     is_public |-> x.is_public, created_at |-> x.created_at]

\* C16: no step of a resync adds or removes a repository or changes one
\* otherwise than in last_synced; last_synced changes only for the
\* repository resynced, only in the step that answers 200, which comes after
\* the last insert of the loop and inserts nothing itself, and is then the
\* time of that step.  A resync answered with an error has changed no
\* last_synced.
C16_ResyncTouchesOnlyLastSynced ==
    [][Ran.op = "sync_repository"
          => /\ {Registered(x) : x \in db'.repositories}
                  = {Registered(x) : x \in db.repositories}
             /\ Cardinality(db'.repositories) = Cardinality(db.repositories)
             /\ \A x \in db.repositories : \A y \in db'.repositories :
                    (x.id = y.id /\ x.last_synced # y.last_synced)
                        => /\ x.id = Ran.a.repository_id
                           /\ Last.pc = "import" /\ Ran.pc = "done" /\ Ran.status = 200
                           /\ db'.bookmarks = db.bookmarks
                           /\ y.last_synced = JNum(now)
             /\ (Last.pc # "done" /\ Ran.pc = "done" /\ Ran.status = 200)
                    => \E y \in db'.repositories :
                           y.id = Ran.a.repository_id /\ y.last_synced = JNum(now)]_vars

\* a resync of repository 2 that imported two bookmarks was answered at time
\* 2: its last_synced is 2, that of repository 1 is still 0
C16_Witness ==
    /\ Last.op = "sync_repository" /\ Last.pc = "done" /\ Last.status = 200
    /\ Last.a.repository_id = 2 /\ Last.body.bookmarks_imported = 2
    /\ now = 2
    /\ \E y \in db.repositories : y.id = 2 /\ y.last_synced = JNum(2)
    /\ \E y \in db.repositories : y.id = 1 /\ y.last_synced = JNum(0)

\* C14: a resync by an authenticated user of a repository id that is in no
\* row, or in a row of another user, is answered 404 in its first step,
\* without a GET of any feed and with the database as it was.
C14_ResyncOfForeignRepositoryNotFound ==
    [][(/\ Ran.op = "sync_repository"
        /\ Authenticated(Ran.credentials)
        /\ ~\E x \in db.repositories :
               x.id = Ran.a.repository_id /\ x.user_id = Ran.credentials.sub)
          => /\ Ran.pc = "done" /\ Ran.status = 404
             /\ Ran.fetched = NoFetch
             /\ db' = db]_vars

\* user 1 asked for a resync of repository 1, which is user 2's, and got 404
C14_Witness ==
    /\ Last.op = "sync_repository" /\ Last.credentials = User(1)
    /\ Last.a.repository_id = 1
    /\ \E x \in db.repositories : x.id = 1 /\ x.user_id = 2
    /\ Last.pc = "done" /\ Last.status = 404 /\ Last.fetched = NoFetch

\* C15: a resync whose GET answers JSON that is not an array is rejected as
\* the import of such a feed is: answered with an error in the step that
\* sees the answer, with no bookmark inserted and no last_synced changed.
C15_ResyncRejectsMalformedFeed ==
    [][(/\ Ran.op = "sync_repository"
        /\ Ran.fetched.ok /\ Ran.fetched.json.t # "arr")
          => /\ Ran.pc = "done" /\ Ran.status \in {400, 500}
             /\ db'.bookmarks \subseteq db.bookmarks
             /\ db'.repositories = db.repositories]_vars

----------------------------------------------------------------------------
(* Repositories that share a name.  The repositories table has no UNIQUE    *)
(* constraint on (user_id, name) and add_repository does not look for the   *)
(* name: a user may register 's' a second time.  One request at a time.     *)

NamedAddRepositoryRequests ==
    { NewRequest("add_repository", User(u), REPOSITORY_S) : u \in UserIds }

NamedSyncRepositoryRequests ==
    { NewRequest("sync_repository", User(1), [repository_id |-> id]) :
        id \in 1..MaxRepositoryId }

AddBookmarkNamed == Complete(NewRequest("add_bookmark", User(1), BOOKMARK_A))
AddRepositoryNamed == \E r \in NamedAddRepositoryRequests : Complete(r)
SyncRepositoryNamed == \E r \in NamedSyncRepositoryRequests : Complete(r)

NextNames ==
    \/ AddBookmarkNamed
    \/ AddRepositoryNamed
    \/ SyncRepositoryNamed

SpecNames == Init /\ [][NextNames]_vars

\* the bookmarks the request answered last has imported, when it was an
\* import: the newest rows, as many as it reports
ImportedByLast ==
    IF Last.op = "add_repository" /\ Last.status = 200
    THEN {b \in db.bookmarks : b.id > db.seq.bookmarks - Last.body.bookmarks_imported}
    ELSE {}

\* C17: a resync of repository R of an owner that answers 200 deletes and
\* inserts only bookmarks of that owner with R's name as source, and of
\* these none that another repository imported: the bookmarks of other
\* users, the owner's manual bookmarks and the bookmarks imported from the
\* owner's other repositories are in the table afterwards as they were.
C17_ResyncTouchesOnlyItsBookmarks ==
    [][(Ran.op = "sync_repository" /\ Ran.status = 200)
          => LET R == the(get_repository_by_id(db, Ran.a.repository_id, Ran.user_id))
                 mine(b) == b.user_id = R.user_id /\ b.source = JStr(R.name)
             IN  /\ \A b \in db.bookmarks : ~mine(b) => b \in db'.bookmarks
                 /\ \A b \in db'.bookmarks \ db.bookmarks : mine(b)
                 /\ (Last.op = "add_repository" /\ Last.status = 200
                        /\ Last.body.repository_id # R.id)
                      => ImportedByLast \subseteq db'.bookmarks]_vars

----------------------------------------------------------------------------
(* Resyncs that overlap (Spec) *)

\* C19: when the two workers have both answered 200 to a resync of the same
\* repository, the feed having answered both with the same array, the
\* repository has as many bookmarks as the feed has entries that can be
\* imported: one copy of each.
C19_ConcurrentResyncsLeaveOneCopy ==
    LET a == req["w1"]
        b == req["w2"]
    IN  (/\ a.op = "sync_repository" /\ b.op = "sync_repository"
         /\ a.pc = "done" /\ b.pc = "done"
         /\ a.status = 200 /\ b.status = 200
         /\ a.a.repository_id = b.a.repository_id
         /\ a.fetched = b.fetched /\ a.fetched.json.t = "arr")
            => \A x \in db.repositories :
                   x.id = a.a.repository_id
                       => Len(RepositoryBookmarks(db, x.user_id, x.name))
                            = Count(a.fetched.json.v, Importable)

----------------------------------------------------------------------------
(* The rate limiting middleware (the same in both services).  time.time()  *)
(* is read as a clock of whole seconds that does not go back; the limits    *)
(* are scaled down: the code has RATE_LIMIT_DURATION = 60 with              *)
(* RATE_LIMIT_REQUESTS = 60 (src/backend) and 30 (src/server), and the      *)
(* middleware does not depend on their values.                              *)

RATE_LIMIT_DURATION == 3
RATE_LIMIT_REQUESTS == 2
MaxClock == 4

Clients == {"10.0.0.1", "10.0.0.2"}

\* [t for t in request_history[ip] if current_time - t < RATE_LIMIT_DURATION]
recent(times, current_time) ==
    LET in_window(t) == current_time - t < RATE_LIMIT_DURATION
    IN  SelectSeq(times, in_window)

\* the dict after the cleaning loop: lists filtered, empty lists deleted
clean(history, current_time) ==
    [ip \in {i \in DOMAIN history : recent(history[i], current_time) # <<>>}
        |-> recent(history[ip], current_time)]

\* the middleware with > in place of >= in its test of the limit
rate_limit_middleware_one_more(history, client_ip, current_time) ==
    LET cleaned == clean(history, current_time)
    IN  IF client_ip \in DOMAIN cleaned /\ Len(cleaned[client_ip]) > RATE_LIMIT_REQUESTS
        THEN [request_history |-> cleaned, rejected |-> TRUE]
        ELSE [request_history |->
                  [ip \in DOMAIN cleaned \cup {client_ip} |->
                      IF ip = client_ip
                      THEN Append(IF ip \in DOMAIN cleaned THEN cleaned[ip] ELSE <<>>,
                                  current_time)
                      ELSE cleaned[ip]],
              rejected |-> FALSE]

\* rate_limit_middleware up to its call_next: the dict it leaves and whether
\* it answered 429 itself
rate_limit_middleware(history, client_ip, current_time) ==
    LET cleaned == clean(history, current_time)
    IN  IF client_ip \in DOMAIN cleaned /\ Len(cleaned[client_ip]) >= RATE_LIMIT_REQUESTS
        THEN [request_history |-> cleaned, rejected |-> TRUE]
        ELSE [request_history |->
                  [ip \in DOMAIN cleaned \cup {client_ip} |->
                      IF ip = client_ip
                      THEN Append(IF ip \in DOMAIN cleaned THEN cleaned[ip] ELSE <<>>,
                                  current_time)
                      ELSE cleaned[ip]],
              rejected |-> FALSE]

\* a request of client_ip reaches the service; what call_next answers is 200
RateLimitedRequest ==
    \E client_ip \in Clients :
        LET m == rate_limit_middleware(request_history, client_ip, now)
            r == NewRequest("rate_limit_middleware", NoCredentials, [client_ip |-> client_ip])
        IN  /\ request_history' = m.request_history
            /\ forwarded' =
                   IF m.rejected THEN forwarded
                   ELSE [ip \in DOMAIN forwarded \cup {client_ip} |->
                            IF ip = client_ip
                            THEN Append(IF ip \in DOMAIN forwarded THEN forwarded[ip] ELSE <<>>,
                                        now)
                            ELSE forwarded[ip]]
            /\ req' = [req EXCEPT !["w1"] =
                          [r EXCEPT !.pc = "done",
                                    !.status = IF m.rejected THEN 429 ELSE 200]]
            /\ UNCHANGED <<db, now, config, env_config>>

Elapse ==
    /\ now < MaxClock /\ now' = now + 1
    /\ UNCHANGED <<db, req, config, env_config, request_history, forwarded>>

NextRate ==
    \/ RateLimitedRequest
    \/ Elapse

SpecRate == Init /\ [][NextRate]_vars

\* the requests of ip passed on with a time in the window [from, from + D)
ForwardedWithin(log, ip, from) ==
    Cardinality({i \in 1..Len(log[ip]) :
                    from <= log[ip][i] /\ log[ip][i] < from + RATE_LIMIT_DURATION})

\* all the requests recorded for ip are RATE_LIMIT_DURATION old or older
AgedOut(ip) ==
    /\ ip \in DOMAIN request_history
    /\ \A i \in 1..Len(request_history[ip]) :
           now - request_history[ip][i] >= RATE_LIMIT_DURATION

\* C20: after every step, no client has more than RATE_LIMIT_REQUESTS
\* requests passed on within any RATE_LIMIT_DURATION seconds.  A request
\* answered 429 is passed on nowhere and its time is not in the client's
\* list, which keeps its recent times only.  When a request arrives, every
\* client whose recorded times have all aged out is deleted from the dict;
\* if it is the client of the request, the request is passed on and the
\* client starts a new list with its time.
C20_RateLimitPerClientWindow ==
    [][/\ \A ip \in DOMAIN forwarded' : \A from \in 0..MaxClock :
              ForwardedWithin(forwarded', ip, from) <= RATE_LIMIT_REQUESTS
       /\ (Ran.op = "rate_limit_middleware" /\ now' = now)
            => LET c == Ran.a.client_ip
                   before == IF c \in DOMAIN forwarded THEN forwarded[c] ELSE <<>>
               IN  /\ Ran.status = 429
                         => /\ forwarded' = forwarded
                            /\ c \in DOMAIN request_history
                            /\ request_history'[c] = recent(request_history[c], now)
                            /\ Len(request_history'[c]) >= RATE_LIMIT_REQUESTS
                   /\ Ran.status # 429
                         => /\ forwarded'[c] = Append(before, now)
                            /\ Len(request_history'[c]) <= RATE_LIMIT_REQUESTS
                   /\ \A ip \in Clients :
                          AgedOut(ip)
                              => IF ip = c
                                 THEN Ran.status # 429 /\ request_history'[c] = <<now>>
                                 ELSE ip \notin DOMAIN request_history']_vars

\* a client that had used up its limit has aged out and been admitted
\* again: its list is the time of the new request alone, and the other
\* client, aged out as well, is no longer in the dict
C20_Witness ==
    /\ Last.op = "rate_limit_middleware" /\ Last.status = 200
    /\ LET c == Last.a.client_ip
       IN  /\ c \in DOMAIN forwarded /\ c \in DOMAIN request_history
           /\ Len(forwarded[c]) = RATE_LIMIT_REQUESTS + 1
           /\ ForwardedWithin(forwarded, c, 0) = RATE_LIMIT_REQUESTS
           /\ request_history[c] = <<now>>
           /\ forwarded[c][Len(forwarded[c])] = now
           /\ DOMAIN request_history = {c} /\ DOMAIN forwarded = Clients

----------------------------------------------------------------------------
(* The configuration file and CONFIG_FILE_PATH.  The environment of the     *)
(* process is fixed when it starts: unset, or naming a file other than      *)
(* config.yaml that exists, with or without entries, or does not exist.     *)

\* a local_files list as a file may have it when the process starts
StartLists == {<<>>, <<PATH_1>>, <<PATH_2>>, <<PATH_MISSING>>}

InitConfig ==
    /\ db = EmptyDb
    /\ now = 0
    /\ req = [w \in Workers |-> NoRequest]
    /\ config \in StartLists
    /\ env_config \in {NotSet, NoConfigAt} \cup {ConfigAt(l) : l \in StartLists}
    /\ request_history = <<>>
    /\ forwarded = <<>>

ListRepositories == Serve(NewRequest("list_repositories", NoCredentials, <<>>))

NextConfig ==
    \/ ConfigAddRepository
    \/ ConfigDeleteRepository
    \/ ListRepositories
    \/ ServerSearch

SpecConfig == InitConfig /\ [][NextConfig]_vars

\* what GET /repositories/list answers in a state
Listed(cfg, env) ==
    list_repositories(cfg, env, NewRequest("list_repositories", NoCredentials, <<>>)).r.body

\* C21: whichever file the configuration is loaded from, after an add of p
\* answered 200 the list has p exactly once, after a delete of p answered
\* 200 it has p no more, an add of a path the list has is answered 400 and
\* a delete of a path it has not 404, both with the list as it was.
C21_ListReflectsEveryChange ==
    [][LET was == Listed(config, env_config)
           is == Listed(config', env_config')
       IN  /\ (Ran.op = "config_add_repository" /\ Ran.status = 200)
                 => Cardinality({i \in 1..Len(is) : is[i] = Ran.a.path}) = 1
           /\ (Ran.op = "config_delete_repository" /\ Ran.status = 200)
                 => ~in_list(is, Ran.a.path)
           /\ (Ran.op = "config_add_repository" /\ in_list(was, Ran.a.path))
                 => Ran.status = 400 /\ is = was
           /\ (Ran.op = "config_delete_repository" /\ ~in_list(was, Ran.a.path))
                 => Ran.status = 404 /\ is = was]_vars

====
